---- MODULE Spec2Model ----
(***************************************************************************)
(* Turn resolution of Prompt Wars as the front end implements it: the      *)
(* zustand game store (store/gameStore.js), the GameContainer component    *)
(* that drives it (initializeGame effect, handlePromptSubmit, reset        *)
(* button) and the PromptInput / Card guards that decide which user        *)
(* events reach the store.                                                 *)
(*                                                                         *)
(* The three awaited HTTP calls (fetchCards, drawHand, submitBattle) are   *)
(* the only suspension points.  Everything a handler does between two      *)
(* awaits runs in one JavaScript task and is one action here.  React       *)
(* re-renders synchronously after a store update, before the next user     *)
(* event is dispatched, so the guards of the user events read the store.   *)
(***************************************************************************)
EXTENDS Integers, Sequences, FiniteSets, TLC

(* ------------------------------ bounds --------------------------------- *)

\* Submissions are accepted by the model only while the history is shorter.
MaxTurns == 2

\* Cap on simultaneously pending handlePromptSubmit invocations considered.
MaxInFlight == 2

\* WebSocket objects of one hook instance that exist at the same time.
MaxSockets == 2

\* Reconnect timers of one hook instance that are pending at the same time.
MaxTimers == 2

(* ------------------------- program constants --------------------------- *)

MaxHP == 100
HandSize == 3
Null == "null"

\* store.error when it is null; a message is kept as the sequence of the
\* pieces it is concatenated from.
NoError == <<>>

\* Card ids of the registry the backend draws from (a sample of the catalog).
CardIds == {"fire", "sword", "steel", "ice"}

\* drawHand(3) answers with HandSize distinct cards; the order of a hand is
\* used for rendering only, so a hand is kept as the set of its card ids.
Hands == {h \in SUBSET CardIds : Cardinality(h) = HandSize}

\* Texts the player can have in the textarea: empty, blank, a real prompt.
Prompts == {"", " ", "A mighty fire spell"}

\* String.prototype.trim on the texts above.
Trim(s) == IF s = " " THEN "" ELSE s

\* PromptInput.defaultProps.maxLength
MaxLength == 500

\* Two long texts, named by their size: one that just fits the textarea and
\* one that is a character too long.
Text500 == "<a text of 500 characters>"
Text501 == "<a text of 501 characters>"

\* What the player can try to put into the textarea, by typing or pasting.
Typed == Prompts \cup {Text500, Text501}

\* String.prototype.length of the texts above.
Length(s) ==
  CASE s = "" -> 0
    [] s = " " -> 1
    [] s = "A mighty fire spell" -> 19
    [] s = Text500 -> 500
    [] s = Text501 -> 501

\* A textarea that lets any text through.
MaxLengthInput_None(s) == s

\* The textarea's maxLength attribute: the value the browser hands to
\* handleChange holds at most MaxLength characters of the text entered.
MaxLengthInput(s) == IF Length(s) > MaxLength THEN Text500 ELSE s

\* Verdicts the judge endpoint can answer with (winner_id, damage_dealt).
\* Winner "null" is a tie; "player_3" is an id the client does not know.
\* Damage covers the documented range and values outside it.
Verdicts ==
  { [winner_id |-> "player_1", damage_dealt |-> 25],
    [winner_id |-> "player_1", damage_dealt |-> 120],
    [winner_id |-> "player_2", damage_dealt |-> 40],
    [winner_id |-> "player_2", damage_dealt |-> -10],
    [winner_id |-> Null,       damage_dealt |-> 0],
    [winner_id |-> "player_3", damage_dealt |-> 40] }

\* Error.message of the failures thrown by services/api.js.
MsgFetchCards == "Failed to fetch cards"
MsgDrawHand == "Failed to draw hand"
MsgSubmitBattle == "Failed to submit battle"

(* ------------------------------- state --------------------------------- *)

VARIABLES
  gameStatus,       \* store.gameStatus
  currentTurn,      \* store.currentTurn
  player,           \* store.player: [hp, hand, elo_rating]
  opponent,         \* store.opponent: [hp, elo_rating]
  myPrompt,         \* store.myPrompt
  mySelectedCards,  \* store.mySelectedCards, in selection order
  hasSubmitted,     \* store.hasSubmitted
  battleHistory,    \* store.battleHistory
  isLoading,        \* store.isLoading
  error,            \* store.error
  allCards,         \* store.allCards
  initPc,           \* position of the initializeGame effect
  calls,            \* pending handlePromptSubmit invocations
  drawnHand,        \* hand in the latest answer of /api/cards/draw/hand
  isConnected,      \* useWebSocket: isConnected
  wsError,          \* useWebSocket: error (App names it wsError)
  wsRef,            \* useWebSocket: wsRef.current, 0 for null
  reconnectTimeoutRef,  \* useWebSocket: reconnectTimeoutRef.current
  reconnectAttempts,    \* useWebSocket: reconnectAttempts.current
  sockets,          \* readyState of the WebSocket objects of the hook
  timers,           \* pending setTimeout callbacks of ws.onclose
  mounted           \* the component that uses the hook is mounted

storeVars == <<gameStatus, currentTurn, player, opponent, myPrompt,
               mySelectedCards, hasSubmitted, battleHistory, isLoading,
               error, allCards, initPc, calls, drawnHand>>

wsVars == <<isConnected, wsError, wsRef, reconnectTimeoutRef,
            reconnectAttempts, sockets, timers, mounted>>

vars == <<storeVars, wsVars>>

(* --------------------------- store actions ----------------------------- *)

Max(a, b) == IF a >= b THEN a ELSE b
Min(a, b) == IF a <= b THEN a ELSE b

\* updatePlayerHP: the hp the store keeps for the value it is given.
updatePlayerHP(hp) == Max(0, Min(MaxHP, hp))

\* updateOpponentHP without the clamp.
updateOpponentHP_NoClamp(hp) == hp

\* updateOpponentHP: the hp the store keeps for the value it is given.
updateOpponentHP(hp) == Max(0, Min(MaxHP, hp))

\* addBattleResult that puts the new record first.
addBattleResult_Prepend(history, result) == <<result>> \o history

\* addBattleResult: [...state.battleHistory, result]
addBattleResult(history, result) == Append(history, result)

\* incrementTurn that counts a turn twice.
incrementTurn_Double(turn) == turn + 2

\* incrementTurn that leaves the counter alone.
incrementTurn_Stuck(turn) == turn

\* incrementTurn: the new turn counter (the other fields are reset in the
\* action that calls it).
incrementTurn(turn) == turn + 1

\* toggleCardSelection: filter the id out when present, else append it.
toggleCardSelection(cards, cardId) ==
  IF \E i \in 1..Len(cards) : cards[i] = cardId
  THEN SelectSeq(cards, LAMBDA id : id # cardId)
  ELSE Append(cards, cardId)

\* The initial store, also what resetGame writes.
InitialPlayer == [hp |-> 100, hand |-> {}, elo_rating |-> 1200]
InitialOpponent == [hp |-> 100, elo_rating |-> 1200]

(* ------------------------- rendering guards ---------------------------- *)

\* GameContainer: disabled={hasSubmitted || isLoading}
Disabled == hasSubmitted \/ isLoading

\* GameContainer shows only the spinner while loading with an empty hand.
LoadingScreen == isLoading /\ player.hand = {}

\* canSubmit that forgets the disabled prop.
canSubmit_IgnoresDisabled(value, selectedCards, disabled) ==
  Trim(value) # "" /\ Len(selectedCards) > 0

\* PromptInput: canSubmit, the enabling condition of the submit button.
canSubmit(value, selectedCards, disabled) ==
  Trim(value) # "" /\ Len(selectedCards) > 0 /\ ~disabled

\* PromptInput.handleSubmit: the condition under which onSubmit is called.
handleSubmit(value, selectedCards) ==
  Trim(value) # "" /\ Len(selectedCards) > 0

\* The message handlePromptSubmit's catch block stores.
SubmitError(message) ==
  <<"Failed to submit battle: ", message,
    ". Please try again or reset the game.">>

(* ------------------------------ start ---------------------------------- *)

SocketIds == 1..MaxSockets
TimerIds == 1..MaxTimers

\* The refs and state of useWebSocket before any component has called it.
NoHook ==
  /\ isConnected = FALSE
  /\ wsError = Null
  /\ wsRef = 0
  /\ reconnectTimeoutRef = 0
  /\ reconnectAttempts = 0
  /\ sockets = [id \in SocketIds |-> "none"]
  /\ timers = {}
  /\ mounted = FALSE

\* The store as created, after the mount effect has run up to its first
\* await: setLoading(true), fetchCards() pending.
Init ==
  /\ gameStatus = "idle"
  /\ currentTurn = 0
  /\ player = InitialPlayer
  /\ opponent = InitialOpponent
  /\ myPrompt = ""
  /\ mySelectedCards = <<>>
  /\ hasSubmitted = FALSE
  /\ battleHistory = <<>>
  /\ isLoading = TRUE
  /\ error = NoError
  /\ allCards = {}
  /\ initPc = "fetchCards"
  /\ calls = <<>>
  /\ drawnHand = {}
  /\ NoHook

(* ---------------------- initializeGame (effect) ------------------------ *)

\* fetchCards() resolved: setAllCards, then drawHand(3) is awaited.
FetchCardsOk ==
  /\ initPc = "fetchCards"
  /\ allCards' = CardIds
  /\ initPc' = "drawHand"
  /\ UNCHANGED <<gameStatus, currentTurn, player, opponent, myPrompt,
                 mySelectedCards, hasSubmitted, battleHistory, isLoading,
                 error, calls,
                 drawnHand>>
  /\ UNCHANGED wsVars

\* A catch block of the effect that leaves the loading flag set.
InitCatch_StaysLoading(message) ==
  /\ error' = <<message>>
  /\ initPc' = "done"
  /\ UNCHANGED <<gameStatus, currentTurn, player, opponent, myPrompt,
                 mySelectedCards, hasSubmitted, battleHistory, isLoading,
                 allCards, calls,
                 drawnHand>>
  /\ UNCHANGED wsVars

\* The catch block of the effect: setError(err.message), setLoading(false).
InitCatch(message) ==
  /\ error' = <<message>>
  /\ isLoading' = FALSE
  /\ initPc' = "done"
  /\ UNCHANGED <<gameStatus, currentTurn, player, opponent, myPrompt,
                 mySelectedCards, hasSubmitted, battleHistory, allCards,
                 calls,
                 drawnHand>>
  /\ UNCHANGED wsVars

FetchCardsFail ==
  /\ initPc = "fetchCards"
  /\ InitCatch(MsgFetchCards)

\* drawHand(3) resolved: setPlayerHand(hand), setLoading(false).
InitDrawHandOk(hand) ==
  /\ initPc = "drawHand"
  /\ drawnHand' = hand
  /\ player' = [player EXCEPT !.hand = drawnHand']
  /\ isLoading' = FALSE
  /\ initPc' = "done"
  /\ UNCHANGED <<gameStatus, currentTurn, opponent, myPrompt,
                 mySelectedCards, hasSubmitted, battleHistory, error,
                 allCards, calls>>
  /\ UNCHANGED wsVars

InitDrawHandFail ==
  /\ initPc = "drawHand"
  /\ InitCatch(MsgDrawHand)

(* ----------------------------- user events ----------------------------- *)

\* Typing in the textarea (disabled while Disabled): setMyPrompt(value).
SetMyPrompt(value) ==
  /\ ~LoadingScreen
  /\ ~Disabled
  /\ MaxLengthInput(value) # myPrompt
  /\ myPrompt' = MaxLengthInput(value)
  /\ UNCHANGED <<gameStatus, currentTurn, player, opponent, mySelectedCards,
                 hasSubmitted, battleHistory, isLoading, error, allCards,
                 initPc, calls,
                 drawnHand>>
  /\ UNCHANGED wsVars

\* A card that reports the click although it is disabled.
CardClick_IgnoresDisabled(cardId) ==
  /\ ~LoadingScreen
  /\ cardId \in player.hand
  /\ mySelectedCards' = toggleCardSelection(mySelectedCards, cardId)
  /\ UNCHANGED <<gameStatus, currentTurn, player, opponent, myPrompt,
                 hasSubmitted, battleHistory, isLoading, error, allCards,
                 initPc, calls,
                 drawnHand>>
  /\ UNCHANGED wsVars

\* Card.handleClick on a card of the hand: onSelect(card.id) unless disabled.
CardClick(cardId) ==
  /\ ~LoadingScreen
  /\ cardId \in player.hand
  /\ ~Disabled
  /\ mySelectedCards' = toggleCardSelection(mySelectedCards, cardId)
  /\ UNCHANGED <<gameStatus, currentTurn, player, opponent, myPrompt,
                 hasSubmitted, battleHistory, isLoading, error, allCards,
                 initPc, calls,
                 drawnHand>>
  /\ UNCHANGED wsVars

\* The reset button: resetGame() and window.location.reload().  The page
\* starts again, which drops every pending promise of the old page.
ResetGame ==
  /\ ~LoadingScreen
  /\ gameStatus' = "idle"
  /\ currentTurn' = 0
  /\ player' = InitialPlayer
  /\ opponent' = InitialOpponent
  /\ myPrompt' = ""
  /\ mySelectedCards' = <<>>
  /\ hasSubmitted' = FALSE
  /\ battleHistory' = <<>>
  /\ isLoading' = TRUE
  /\ error' = NoError
  /\ allCards' = {}
  /\ initPc' = "fetchCards"
  /\ calls' = <<>>
  /\ drawnHand' = {}
  /\ UNCHANGED wsVars

(* -------------------------- handlePromptSubmit ------------------------- *)

RemoveAt(s, i) == SubSeq(s, 1, i - 1) \o SubSeq(s, i + 1, Len(s))

\* Click on the submit button.  The invocation runs to its first await:
\* setLoading(true), setHasSubmitted(true), submitBattle(battleData).  The
\* closure keeps the player, opponent, prompt, cards and history of the
\* render it was created in; judge_calls counts the submitBattle calls the
\* invocation has made (line 78 is the only one).
PromptSubmit ==
  /\ ~LoadingScreen
  /\ canSubmit(myPrompt, mySelectedCards, Disabled)
  /\ handleSubmit(myPrompt, mySelectedCards)
  /\ Len(battleHistory) < MaxTurns
  /\ Len(calls) < MaxInFlight
  /\ isLoading' = TRUE
  /\ hasSubmitted' = TRUE
  /\ calls' = Append(calls,
       [pc |-> "submitBattle",
        judge_calls |-> 1,
        player_hp |-> player.hp,
        opponent_hp |-> opponent.hp,
        history_length |-> Len(battleHistory),
        player1_prompt |-> myPrompt,
        player1_cards |-> mySelectedCards])
  /\ UNCHANGED <<gameStatus, currentTurn, player, opponent, myPrompt,
                 mySelectedCards, battleHistory, error, allCards, initPc,
                 drawnHand>>
  /\ UNCHANGED wsVars

\* The hp update with the two branches exchanged: the winner is damaged.
ApplyVerdict_Swapped(result, seen, held) ==
  IF result.winner_id = "player_2"
  THEN [player |-> held.player,
        opponent |-> updateOpponentHP(seen.opponent - result.damage_dealt)]
  ELSE IF result.winner_id = "player_1"
  THEN [player |-> updatePlayerHP(seen.player - result.damage_dealt),
        opponent |-> held.opponent]
  ELSE held

\* An hp update whose branches both run: every decisive verdict damages
\* the two players.
ApplyVerdict_Both(result, seen, held) ==
  IF result.winner_id \in {"player_1", "player_2"}
  THEN [player |-> updatePlayerHP(seen.player - result.damage_dealt),
        opponent |-> updateOpponentHP(seen.opponent - result.damage_dealt)]
  ELSE held

\* Lines 88-102: the hp pair after the verdict.  seen is the hp pair of the
\* closure (the render the handler was created in), held the pair in the
\* store, which a branch that calls no update leaves as it is.
ApplyVerdict(result, seen, held) ==
  IF result.winner_id = "player_1"
  THEN [player |-> held.player,
        opponent |-> updateOpponentHP(seen.opponent - result.damage_dealt)]
  ELSE IF result.winner_id = "player_2"
  THEN [player |-> updatePlayerHP(seen.player - result.damage_dealt),
        opponent |-> held.opponent]
  ELSE held

\* The verdict is recorded, the hp update is left out.
SubmitBattleOk_HistoryOnly(i, result) ==
  /\ i \in 1..Len(calls)
  /\ calls[i].pc = "submitBattle"
  /\ battleHistory' = addBattleResult(battleHistory,
       [winner_id |-> result.winner_id,
        damage_dealt |-> result.damage_dealt,
        turn |-> calls[i].history_length + 1])
  /\ calls' = [calls EXCEPT ![i].pc = "drawHand"]
  /\ UNCHANGED <<gameStatus, currentTurn, player, opponent, myPrompt,
                 mySelectedCards, hasSubmitted, isLoading, error, allCards,
                 initPc,
                 drawnHand>>
  /\ UNCHANGED wsVars

\* submitBattle resolved with a verdict: addBattleResult, the hp update,
\* then drawHand(3) is awaited.
SubmitBattleOk(i, result) ==
  /\ i \in 1..Len(calls)
  /\ calls[i].pc = "submitBattle"
  /\ battleHistory' = addBattleResult(battleHistory,
       [winner_id |-> result.winner_id,
        damage_dealt |-> result.damage_dealt,
        turn |-> calls[i].history_length + 1])
  /\ LET hp == ApplyVerdict(result,
                 [player |-> calls[i].player_hp,
                  opponent |-> calls[i].opponent_hp],
                 [player |-> player.hp, opponent |-> opponent.hp])
     IN /\ player' = [player EXCEPT !.hp = hp.player]
        /\ opponent' = [opponent EXCEPT !.hp = hp.opponent]
  /\ calls' = [calls EXCEPT ![i].pc = "drawHand"]
  /\ UNCHANGED <<gameStatus, currentTurn, myPrompt, mySelectedCards,
                 hasSubmitted, isLoading, error, allCards, initPc,
                 drawnHand>>
  /\ UNCHANGED wsVars

\* A catch block that leaves hasSubmitted set.
SubmitCatch_StaysSubmitted(i, message) ==
  /\ error' = SubmitError(message)
  /\ isLoading' = FALSE
  /\ calls' = RemoveAt(calls, i)
  /\ UNCHANGED <<gameStatus, currentTurn, player, opponent, myPrompt,
                 mySelectedCards, hasSubmitted, battleHistory, allCards,
                 initPc,
                 drawnHand>>
  /\ UNCHANGED wsVars

\* The catch block: setError(...), setLoading(false), setHasSubmitted(false).
SubmitCatch(i, message) ==
  /\ error' = SubmitError(message)
  /\ isLoading' = FALSE
  /\ hasSubmitted' = FALSE
  /\ calls' = RemoveAt(calls, i)
  /\ UNCHANGED <<gameStatus, currentTurn, player, opponent, myPrompt,
                 mySelectedCards, battleHistory, allCards, initPc,
                 drawnHand>>
  /\ UNCHANGED wsVars

\* A failed judge call that still counts as a turn.
SubmitBattleFail_CountsTurn(i) ==
  /\ i \in 1..Len(calls)
  /\ calls[i].pc = "submitBattle"
  /\ error' = SubmitError(MsgSubmitBattle)
  /\ isLoading' = FALSE
  /\ hasSubmitted' = FALSE
  /\ currentTurn' = incrementTurn(currentTurn)
  /\ calls' = RemoveAt(calls, i)
  /\ UNCHANGED <<gameStatus, player, opponent, myPrompt, mySelectedCards,
                 battleHistory, allCards, initPc,
                 drawnHand>>
  /\ UNCHANGED wsVars

\* submitBattle rejected (response not ok).
SubmitBattleFail(i) ==
  /\ i \in 1..Len(calls)
  /\ calls[i].pc = "submitBattle"
  /\ SubmitCatch(i, MsgSubmitBattle)

\* The end of a turn without setPlayerHand: the old hand stays.
TurnDrawHandOk_KeepsHand(i, hand) ==
  /\ i \in 1..Len(calls)
  /\ calls[i].pc = "drawHand"
  /\ drawnHand' = hand
  /\ currentTurn' = incrementTurn(currentTurn)
  /\ myPrompt' = ""
  /\ mySelectedCards' = <<>>
  /\ hasSubmitted' = FALSE
  /\ isLoading' = FALSE
  /\ calls' = RemoveAt(calls, i)
  /\ UNCHANGED <<gameStatus, player, opponent, battleHistory, error,
                 allCards, initPc>>
  /\ UNCHANGED wsVars

\* drawHand(3) resolved after a verdict: setPlayerHand, incrementTurn,
\* setLoading(false).
TurnDrawHandOk(i, hand) ==
  /\ i \in 1..Len(calls)
  /\ calls[i].pc = "drawHand"
  /\ drawnHand' = hand
  /\ player' = [player EXCEPT !.hand = drawnHand']
  /\ currentTurn' = incrementTurn(currentTurn)
  /\ myPrompt' = ""
  /\ mySelectedCards' = <<>>
  /\ hasSubmitted' = FALSE
  /\ isLoading' = FALSE
  /\ calls' = RemoveAt(calls, i)
  /\ UNCHANGED <<gameStatus, opponent, battleHistory, error, allCards,
                 initPc>>
  /\ UNCHANGED wsVars

\* drawHand(3) rejected after a verdict: the catch block runs.
TurnDrawHandFail(i) ==
  /\ i \in 1..Len(calls)
  /\ calls[i].pc = "drawHand"
  /\ SubmitCatch(i, MsgDrawHand)

(* --------------------------- specification ----------------------------- *)

Next ==
  \/ FetchCardsOk
  \/ FetchCardsFail
  \/ \E hand \in Hands : InitDrawHandOk(hand)
  \/ InitDrawHandFail
  \/ \E value \in Typed : SetMyPrompt(value)
  \/ \E cardId \in CardIds : CardClick(cardId)
  \/ ResetGame
  \/ PromptSubmit
  \/ \E i \in 1..MaxInFlight, result \in Verdicts : SubmitBattleOk(i, result)
  \/ \E i \in 1..MaxInFlight : SubmitBattleFail(i)
  \/ \E i \in 1..MaxInFlight, hand \in Hands : TurnDrawHandOk(i, hand)
  \/ \E i \in 1..MaxInFlight : TurnDrawHandFail(i)

Spec == Init /\ [][Next]_vars

\* The same transitions, with the fairness the card service is given when
\* the judge is the collaborator in doubt: a pending fetchCards or drawHand
\* is answered, and its continuation runs.  submitBattle awaits fetch()
\* without a timer, so nothing obliges a pending judge call to end.
LiveSpec ==
  /\ Init
  /\ [][Next]_vars
  /\ WF_vars(FetchCardsOk \/ FetchCardsFail)
  /\ WF_vars((\E hand \in Hands : InitDrawHandOk(hand)) \/ InitDrawHandFail)
  /\ WF_vars(\E i \in 1..MaxInFlight :
               (\E hand \in Hands : TurnDrawHandOk(i, hand))
               \/ TurnDrawHandFail(i))

(* ------------------------ the store on its own ------------------------ *)

\* The actions of the store that write the match (status, turn counter,
\* players), called in any order with any argument, as a caller other than
\* GameContainer may do.  The setters of the turn's input and of the UI
\* flags write none of these fields and are left out.

Statuses == {"idle", "waiting", "active", "finished"}

\* hp values a caller may pass, inside and outside 0..100.
HpInputs == {-5, 0, 50, 100, 150}

\* Arguments of setPlayer / setOpponent: the fields to overwrite.
PlayerData == {[hp |-> h] : h \in HpInputs} \cup {[elo_rating |-> 1216]}

\* Arguments of initializeGame (game_id, ids and usernames are not kept).
GameData ==
  [status : Statuses, current_turn : {0, 1},
   player1 : [hp : HpInputs, hand : Hands, elo_rating : {1200}],
   player2 : [hp : HpInputs, elo_rating : {1200}]]

\* { ...fields, ...data }
Spread(fields, data) ==
  [f \in DOMAIN fields |-> IF f \in DOMAIN data THEN data[f] ELSE fields[f]]

\* The store as create() builds it.
StoreInit ==
  /\ gameStatus = "idle"
  /\ currentTurn = 0
  /\ player = InitialPlayer
  /\ opponent = InitialOpponent
  /\ myPrompt = ""
  /\ mySelectedCards = <<>>
  /\ hasSubmitted = FALSE
  /\ battleHistory = <<>>
  /\ isLoading = FALSE
  /\ error = NoError
  /\ allCards = {}
  /\ initPc = "done"
  /\ calls = <<>>
  /\ drawnHand = {}
  /\ NoHook

setGameStatus(status) ==
  /\ gameStatus' = status
  /\ UNCHANGED <<currentTurn, player, opponent, myPrompt, mySelectedCards,
                 hasSubmitted, battleHistory, isLoading, error, allCards,
                 initPc, calls, drawnHand>>
  /\ UNCHANGED wsVars

setPlayer(playerData) ==
  /\ player' = Spread(player, playerData)
  /\ UNCHANGED <<gameStatus, currentTurn, opponent, myPrompt,
                 mySelectedCards, hasSubmitted, battleHistory, isLoading,
                 error, allCards, initPc, calls, drawnHand>>
  /\ UNCHANGED wsVars

setOpponent(opponentData) ==
  /\ opponent' = Spread(opponent, opponentData)
  /\ UNCHANGED <<gameStatus, currentTurn, player, myPrompt,
                 mySelectedCards, hasSubmitted, battleHistory, isLoading,
                 error, allCards, initPc, calls, drawnHand>>
  /\ UNCHANGED wsVars

StoreUpdatePlayerHP(hp) ==
  /\ player' = [player EXCEPT !.hp = updatePlayerHP(hp)]
  /\ UNCHANGED <<gameStatus, currentTurn, opponent, myPrompt,
                 mySelectedCards, hasSubmitted, battleHistory, isLoading,
                 error, allCards, initPc, calls, drawnHand>>
  /\ UNCHANGED wsVars

StoreUpdateOpponentHP(hp) ==
  /\ opponent' = [opponent EXCEPT !.hp = updateOpponentHP(hp)]
  /\ UNCHANGED <<gameStatus, currentTurn, player, myPrompt,
                 mySelectedCards, hasSubmitted, battleHistory, isLoading,
                 error, allCards, initPc, calls, drawnHand>>
  /\ UNCHANGED wsVars

StoreIncrementTurn ==
  /\ currentTurn < MaxTurns
  /\ currentTurn' = incrementTurn(currentTurn)
  /\ myPrompt' = ""
  /\ mySelectedCards' = <<>>
  /\ hasSubmitted' = FALSE
  /\ UNCHANGED <<gameStatus, player, opponent, battleHistory, isLoading,
                 error, allCards, initPc, calls, drawnHand>>
  /\ UNCHANGED wsVars

resetGame ==
  /\ gameStatus' = "idle"
  /\ currentTurn' = 0
  /\ player' = InitialPlayer
  /\ opponent' = InitialOpponent
  /\ myPrompt' = ""
  /\ mySelectedCards' = <<>>
  /\ hasSubmitted' = FALSE
  /\ battleHistory' = <<>>
  /\ error' = NoError
  /\ UNCHANGED <<isLoading, allCards, initPc, calls, drawnHand>>
  /\ UNCHANGED wsVars

initializeGame(gameData) ==
  /\ gameStatus' = gameData.status
  /\ currentTurn' = gameData.current_turn
  /\ player' = [hp |-> gameData.player1.hp,
                hand |-> gameData.player1.hand,
                elo_rating |-> gameData.player1.elo_rating]
  /\ opponent' = [hp |-> gameData.player2.hp,
                  elo_rating |-> gameData.player2.elo_rating]
  /\ battleHistory' = <<>>
  /\ myPrompt' = ""
  /\ mySelectedCards' = <<>>
  /\ hasSubmitted' = FALSE
  /\ UNCHANGED <<isLoading, error, allCards, initPc, calls, drawnHand>>
  /\ UNCHANGED wsVars

StoreNext ==
  \/ \E hp \in HpInputs : StoreUpdatePlayerHP(hp)
  \/ \E hp \in HpInputs : StoreUpdateOpponentHP(hp)
  \/ \E status \in Statuses : setGameStatus(status)
  \/ \E playerData \in PlayerData : setPlayer(playerData)
  \/ \E opponentData \in PlayerData : setOpponent(opponentData)
  \/ StoreIncrementTurn
  \/ resetGame
  \/ \E gameData \in GameData : initializeGame(gameData)

StoreSpec == StoreInit /\ [][StoreNext]_vars

(* -------------------------- the rating service ------------------------ *)

\* The Elo update of the backend's GameService, which the front end only
\* displays (player.elo_rating).  Its code is not part of the sources at
\* hand; it is written here from its specification: K-factor 32, expected
\* score E = 1 / (1 + 10^((R_other - R_own) / 400)), new rating
\* R + K * (actual - E), ratings kept as integers (rounded to the nearest).

KFactor == 32

\* Ratings the two players may hold when a match ends.
Ratings == {800, 1000, 1200, 1400, 1600, 1800}

\* 10000 * E for a rating difference other - own, a multiple of 200.
ExpectedScore(own, other) ==
  LET d == other - own
  IN CASE d = 0 -> 5000
       [] d = 200 -> 2403    [] d = -200 -> 7597
       [] d = 400 -> 909     [] d = -400 -> 9091
       [] d = 600 -> 307     [] d = -600 -> 9693
       [] d = 800 -> 99      [] d = -800 -> 9901
       [] d = 1000 -> 32     [] d = -1000 -> 9968

\* A number of ten-thousandths, rounded to the nearest integer.
Round(x) == (x + 5000) \div 10000

\* An update that charges the loser nothing.
updateRatings_LoserKeeps(winner, loser, kFactor) ==
  LET gain == Round(kFactor * (10000 - ExpectedScore(winner, loser)))
  IN [winner |-> winner + gain, loser |-> loser]

\* updateRatings(winner, loser, kFactor): newWinner = R_winner + K*(1 - E),
\* newLoser = R_loser + K*(0 - (1 - E)).
updateRatings(winner, loser, kFactor) ==
  LET gain == Round(kFactor * (10000 - ExpectedScore(winner, loser)))
  IN [winner |-> winner + gain, loser |-> loser + (0 - gain)]

\* On a tie each player's actual score is 0.5.
updateRatingsTie(a, b, kFactor) ==
  [a |-> a + Round(kFactor * (5000 - ExpectedScore(a, b))),
   b |-> b + Round(kFactor * (5000 - ExpectedScore(b, a)))]

\* A match about to end: the ratings the players came with and the final
\* hp (one player at 0, or a tie with both standing).
EloInit ==
  /\ gameStatus = "active"
  /\ currentTurn = 1
  /\ \E rp \in Ratings, ro \in Ratings,
        hp \in {<<100, 0>>, <<0, 100>>, <<50, 50>>} :
       /\ player = [hp |-> hp[1], hand |-> {}, elo_rating |-> rp]
       /\ opponent = [hp |-> hp[2], elo_rating |-> ro]
  /\ myPrompt = ""
  /\ mySelectedCards = <<>>
  /\ hasSubmitted = FALSE
  /\ battleHistory = <<>>
  /\ isLoading = FALSE
  /\ error = NoError
  /\ allCards = {}
  /\ initPc = "done"
  /\ calls = <<>>
  /\ drawnHand = {}
  /\ NoHook

\* The match ends: the status becomes finished and the ratings are updated,
\* once.
FinishMatch ==
  /\ gameStatus = "active"
  /\ gameStatus' = "finished"
  /\ LET new == IF opponent.hp = 0 /\ player.hp > 0
                THEN LET r == updateRatings(player.elo_rating,
                                            opponent.elo_rating, KFactor)
                     IN [player |-> r.winner, opponent |-> r.loser]
                ELSE IF player.hp = 0 /\ opponent.hp > 0
                THEN LET r == updateRatings(opponent.elo_rating,
                                            player.elo_rating, KFactor)
                     IN [player |-> r.loser, opponent |-> r.winner]
                ELSE LET r == updateRatingsTie(player.elo_rating,
                                               opponent.elo_rating, KFactor)
                     IN [player |-> r.a, opponent |-> r.b]
     IN /\ player' = [player EXCEPT !.elo_rating = new.player]
        /\ opponent' = [opponent EXCEPT !.elo_rating = new.opponent]
  /\ UNCHANGED <<currentTurn, myPrompt, mySelectedCards, hasSubmitted,
                 battleHistory, isLoading, error, allCards, initPc, calls,
                 drawnHand>>
  /\ UNCHANGED wsVars

EloNext == FinishMatch

EloSpec == EloInit /\ [][EloNext]_vars

(* ------------------------- the WebSocket hook -------------------------- *)

\* One instance of useWebSocket (hooks/useWebSocket.js) in a mounted
\* component, as App uses it.  A WebSocket object is CONNECTING, OPEN,
\* CLOSING or CLOSED; the browser delivers its open and close events as
\* tasks of their own, so each handler is one action.  A CLOSED socket that
\* wsRef no longer points to can do nothing more and its slot is "none".
\* The message handler writes lastMessage only and is left out.

\* reconnectAttempts.current < 5
MaxReconnectAttempts == 5

\* clientId as App generates it: a non-empty string.
ClientId == "client_k3x9q2m1a"

MsgConnectionError == "WebSocket connection error"
MsgGaveUp == "Failed to connect after multiple attempts"

Live(readyState) == readyState \in {"CONNECTING", "OPEN"}

\* Forget the CLOSED sockets nothing refers to.
Release(socks, ref) ==
  [id \in SocketIds |->
     IF socks[id] = "CLOSED" /\ id # ref THEN "none" ELSE socks[id]]

\* A slot is left for one more WebSocket object.
CanCreate == \E id \in SocketIds : sockets[id] = "none"

NewSocketId ==
  CHOOSE id \in SocketIds :
    sockets[id] = "none" /\ \A j \in SocketIds : sockets[j] = "none" => id <= j

NewTimerId ==
  CHOOSE t \in TimerIds :
    t \notin timers /\ \A u \in TimerIds : u \notin timers => t <= u

\* connect(): new WebSocket(wsUrl), wsRef.current = ws; the socket wsRef
\* pointed to before is neither closed nor stripped of its handlers.
connect(socks) ==
  IF ClientId = "" THEN [sockets |-> socks, wsRef |-> wsRef]
  ELSE [sockets |-> [socks EXCEPT ![NewSocketId] = "CONNECTING"],
        wsRef |-> NewSocketId]

\* WebSocket.close(): readyState after the call.
close(readyState) == IF Live(readyState) THEN "CLOSING" ELSE readyState

\* disconnect(), the sockets after wsRef.current.close().
Closed(socks, ref) ==
  IF ref = 0 THEN socks ELSE [socks EXCEPT ![ref] = close(socks[ref])]

\* setState of a hook whose component is unmounted is dropped by React.
SetState(old, new) == IF mounted THEN new ELSE old

\* The mount effect has run: connect().
WsInit ==
  /\ gameStatus = "idle"
  /\ currentTurn = 0
  /\ player = InitialPlayer
  /\ opponent = InitialOpponent
  /\ myPrompt = ""
  /\ mySelectedCards = <<>>
  /\ hasSubmitted = FALSE
  /\ battleHistory = <<>>
  /\ isLoading = FALSE
  /\ error = NoError
  /\ allCards = {}
  /\ initPc = "done"
  /\ calls = <<>>
  /\ drawnHand = {}
  /\ isConnected = FALSE
  /\ wsError = Null
  /\ wsRef = 1
  /\ reconnectTimeoutRef = 0
  /\ reconnectAttempts = 0
  /\ sockets = [id \in SocketIds |-> IF id = 1 THEN "CONNECTING" ELSE "none"]
  /\ timers = {}
  /\ mounted = TRUE

\* ws.onopen of socket id.
OnOpen(id) ==
  /\ sockets[id] = "CONNECTING"
  /\ sockets' = [sockets EXCEPT ![id] = "OPEN"]
  /\ isConnected' = SetState(isConnected, TRUE)
  /\ wsError' = SetState(wsError, Null)
  /\ reconnectAttempts' = 0
  /\ UNCHANGED <<wsRef, reconnectTimeoutRef, timers, mounted>>
  /\ UNCHANGED storeVars

\* Socket id has closed: ws.onerror first when the connection failed, then
\* ws.onclose, which schedules connect() unless 5 attempts were made.  A
\* socket that never opened closes as a failure.
OnClose(id, failed) ==
  /\ sockets[id] \in {"CONNECTING", "OPEN", "CLOSING"}
  /\ sockets[id] = "CONNECTING" => failed
  /\ sockets' = Release([sockets EXCEPT ![id] = "CLOSED"], wsRef)
  /\ isConnected' = SetState(isConnected, FALSE)
  /\ IF reconnectAttempts < MaxReconnectAttempts
     THEN /\ timers # TimerIds
          /\ timers' = timers \cup {NewTimerId}
          /\ reconnectTimeoutRef' = NewTimerId
          /\ wsError' = SetState(wsError,
                          IF failed THEN MsgConnectionError ELSE wsError)
     ELSE /\ wsError' = SetState(wsError, MsgGaveUp)
          /\ UNCHANGED <<timers, reconnectTimeoutRef>>
  /\ UNCHANGED <<wsRef, reconnectAttempts, mounted>>
  /\ UNCHANGED storeVars

\* The callback of setTimeout: reconnectAttempts.current += 1; connect().
TimerFire(t) ==
  /\ t \in timers
  /\ CanCreate
  /\ timers' = timers \ {t}
  /\ reconnectAttempts' = reconnectAttempts + 1
  /\ sockets' = Release(connect(sockets).sockets, connect(sockets).wsRef)
  /\ wsRef' = connect(sockets).wsRef
  /\ UNCHANGED <<isConnected, wsError, reconnectTimeoutRef, mounted>>
  /\ UNCHANGED storeVars

\* The component calls the reconnect() the hook returned, which is connect.
Reconnect ==
  /\ mounted
  /\ CanCreate
  /\ sockets' = Release(connect(sockets).sockets, connect(sockets).wsRef)
  /\ wsRef' = connect(sockets).wsRef
  /\ UNCHANGED <<isConnected, wsError, reconnectTimeoutRef,
                 reconnectAttempts, timers, mounted>>
  /\ UNCHANGED storeVars

\* The component calls disconnect(): clearTimeout of the timer the ref
\* holds, close() of the socket the ref holds, wsRef.current = null,
\* setIsConnected(false).
Disconnect ==
  /\ mounted
  /\ timers' = timers \ {reconnectTimeoutRef}
  /\ sockets' = Release(Closed(sockets, wsRef), 0)
  /\ wsRef' = 0
  /\ isConnected' = FALSE
  /\ UNCHANGED <<wsError, reconnectTimeoutRef, reconnectAttempts, mounted>>
  /\ UNCHANGED storeVars

\* The component unmounts: the cleanup of the effect calls disconnect().
Unmount ==
  /\ mounted
  /\ mounted' = FALSE
  /\ timers' = timers \ {reconnectTimeoutRef}
  /\ sockets' = Release(Closed(sockets, wsRef), 0)
  /\ wsRef' = 0
  /\ isConnected' = FALSE
  /\ UNCHANGED <<wsError, reconnectTimeoutRef, reconnectAttempts>>
  /\ UNCHANGED storeVars

\* The component renders again (App passes a new onMessage function at
\* every render, so connect is a new function and the effect's dependencies
\* have changed): the cleanup calls disconnect(), the effect connect().
EffectRerun ==
  /\ mounted
  /\ CanCreate
  /\ timers' = timers \ {reconnectTimeoutRef}
  /\ LET socks == Closed(sockets, wsRef)
     IN /\ sockets' = Release(connect(socks).sockets, connect(socks).wsRef)
        /\ wsRef' = connect(socks).wsRef
  /\ isConnected' = FALSE
  /\ UNCHANGED <<wsError, reconnectTimeoutRef, reconnectAttempts, mounted>>
  /\ UNCHANGED storeVars

\* sendMessage(type, data): the value it returns (it sends exactly then).
sendMessage == wsRef # 0 /\ sockets[wsRef] = "OPEN"

WsNext ==
  \/ \E id \in SocketIds : OnOpen(id)
  \/ \E id \in SocketIds, failed \in BOOLEAN : OnClose(id, failed)
  \/ \E t \in TimerIds : TimerFire(t)
  \/ Reconnect
  \/ Disconnect
  \/ Unmount
  \/ EffectRerun

WsSpec == WsInit /\ [][WsNext]_vars

(* ------------------------- steps, as observed -------------------------- *)

\* The page was reloaded by the reset button in this step.
ResetStep == initPc' = "fetchCards" /\ isLoading' /\ calls' = <<>>

\* Invocation i applied a verdict in this step.
VerdictStep(i) ==
  /\ i \in 1..Len(calls) /\ calls[i].pc = "submitBattle"
  /\ Len(calls') = Len(calls) /\ calls'[i].pc = "drawHand"

\* Invocation i ended in this step (by its last line or by its catch).
EndStep(i) ==
  /\ i \in 1..Len(calls)
  /\ Len(calls') = Len(calls) - 1
  /\ ~ResetStep

\* Invocation i ended in its catch block because the judge call failed.
JudgeFailStep(i) == EndStep(i) /\ calls[i].pc = "submitBattle"

\* Invocation i ended by its last line: the turn is resolved.
ResolvedStep(i) ==
  /\ EndStep(i) /\ calls[i].pc = "drawHand"
  /\ myPrompt' = "" /\ mySelectedCards' = <<>>

\* A new invocation of handlePromptSubmit started in this step.
SubmitStep == Len(calls') = Len(calls) + 1

LastRecord(history) == history[Len(history)]

Clamped(hp) == IF hp < 0 THEN 0 ELSE IF hp > 100 THEN 100 ELSE hp

(* ------------------------------- claims -------------------------------- *)

\* C1: both hp values lie in 0..100 in every state, whatever damage the
\* verdicts carried (more than the loser's hp, more than 100, negative).
C1_HpClamped ==
  /\ player.hp \in 0..100
  /\ opponent.hp \in 0..100

\* C1 witness: a verdict with damage above 100 and one with negative damage
\* have been applied.
C1_Witness ==
  /\ Len(battleHistory) = 2
  /\ \E k \in 1..2 : battleHistory[k].damage_dealt > 100
  /\ \E k \in 1..2 : battleHistory[k].damage_dealt < 0
  /\ opponent.hp = 0
  /\ player.hp = 100

\* C2: a decisive verdict takes the damage from the loser's hp as the store
\* held it just before, clamped to 0..100, and leaves the winner's hp alone.
C2_DecisiveVerdict ==
  [][\A i \in 1..Len(calls) : VerdictStep(i) =>
       LET r == LastRecord(battleHistory')
       IN /\ r.winner_id = "player_1" =>
               /\ opponent'.hp = Clamped(opponent.hp - r.damage_dealt)
               /\ player'.hp = player.hp
          /\ r.winner_id = "player_2" =>
               /\ player'.hp = Clamped(player.hp - r.damage_dealt)
               /\ opponent'.hp = opponent.hp]_vars

\* C2 witness: 100 hp and damage 25 gave 75, the winner kept 100.
C2_Witness ==
  /\ Len(battleHistory) = 1
  /\ battleHistory[1].winner_id = "player_1"
  /\ battleHistory[1].damage_dealt = 25
  /\ opponent.hp = 75
  /\ player.hp = 100

C4_JudgeFailureAtomic ==
  [][/\ SubmitStep => UNCHANGED <<currentTurn, battleHistory, player, opponent>>
     /\ \A i \in 1..Len(calls) : JudgeFailStep(i) =>
          /\ currentTurn' = currentTurn
          /\ Len(battleHistory') = Len(battleHistory)
          /\ Len(battleHistory') = calls[i].history_length
          /\ player'.hp = player.hp /\ player'.hp = calls[i].player_hp
          /\ opponent'.hp = opponent.hp
          /\ opponent'.hp = calls[i].opponent_hp]_vars

\* C4 witness: the judge call of the first submission has failed.
C4_Witness ==
  /\ calls = <<>>
  /\ error = SubmitError(MsgSubmitBattle)
  /\ battleHistory = <<>>
  /\ currentTurn = 0
  /\ ~isLoading

\* The hp pair that results from applying the verdicts of a history, one
\* after the other, to two players that start at 100.
RECURSIVE HpAfter(_)
HpAfter(history) ==
  IF history = <<>> THEN <<100, 100>>
  ELSE LET before == HpAfter(SubSeq(history, 1, Len(history) - 1))
           r == LastRecord(history)
       IN IF r.winner_id = "player_1"
          THEN <<before[1], Clamped(before[2] - r.damage_dealt)>>
          ELSE IF r.winner_id = "player_2"
          THEN <<Clamped(before[1] - r.damage_dealt), before[2]>>
          ELSE before

\* C5: in every state the hp pair is the one the recorded verdicts produce:
\* a turn's record is in the history exactly when its hp update is applied.
C5_NoPartialVerdict ==
  <<player.hp, opponent.hp>> = HpAfter(battleHistory)

\* C5 witness: two decisive verdicts are recorded and applied, the second
\* turn still awaiting its hand.
C5_Witness ==
  /\ Len(battleHistory) = 2
  /\ player.hp < 100
  /\ opponent.hp < 100
  /\ Len(calls) = 1 /\ calls[1].pc = "drawHand"

\* C6: once a player's hp is 0 no further submission is accepted.
C6_NoTurnAfterFinished ==
  [][(player.hp = 0 \/ opponent.hp = 0) => ~SubmitStep]_vars

\* C7: after a verdict has been applied the status is finished exactly when
\* some player's hp is 0.
C7_FinishedIffZeroHp ==
  Len(battleHistory) > 0 =>
    (gameStatus = "finished" <=> (player.hp = 0 \/ opponent.hp = 0))

\* C8: at most one invocation of handlePromptSubmit is pending.
C8_OneInFlight == Len(calls) <= 1

\* C8 witness: the second turn is pending at the judge, the controls are
\* disabled although a prompt and a card are still in the store.
C8_Witness ==
  /\ Len(calls) = 1 /\ calls[1].pc = "submitBattle"
  /\ Len(battleHistory) = 1
  /\ Trim(myPrompt) # "" /\ Len(mySelectedCards) > 0
  /\ hasSubmitted /\ isLoading

\* C9: a failed judge call leaves hp, turn counter, history, hand, prompt
\* and selected cards as submitted, ends with hasSubmitted and isLoading
\* false, and leaves the submit button enabled for the same submission.
C9_RetryAfterJudgeFailure ==
  [][\A i \in 1..Len(calls) : JudgeFailStep(i) =>
       /\ UNCHANGED <<gameStatus, currentTurn, player, opponent,
                      battleHistory, myPrompt, mySelectedCards>>
       /\ myPrompt' = calls[i].player1_prompt
       /\ mySelectedCards' = calls[i].player1_cards
       /\ ~hasSubmitted' /\ ~isLoading'
       /\ Trim(myPrompt') # "" /\ Len(mySelectedCards') > 0
       /\ \A k \in 1..Len(mySelectedCards') :
            mySelectedCards'[k] \in player'.hand]_vars

\* C9 witness: after a failed judge call a submission got its verdict.
C9_Witness ==
  /\ error = SubmitError(MsgSubmitBattle)
  /\ Len(battleHistory) = 1
  /\ Len(calls) = 1 /\ calls[1].pc = "drawHand"

\* C10: every submission eventually ends: hasSubmitted and isLoading become
\* false again.
C10_SubmissionEnds ==
  [](hasSubmitted => <>(~hasSubmitted /\ ~isLoading))

\* C11: a failed judge call is retried once: an invocation ends with the
\* judge's failure only after it has called submitBattle twice.
C11_RetriedOnce ==
  [][\A i \in 1..Len(calls) : JudgeFailStep(i) =>
       calls[i].judge_calls = 2]_vars

\* C12: a verdict whose winner is none of player_1, player_2 and null is
\* never appended to the history (and so never applied or counted).
C12_MalformedWinnerRejected ==
  \A k \in 1..Len(battleHistory) :
     battleHistory[k].winner_id \in {"player_1", "player_2", Null}

\* C13: no verdict lowers a player's hp by more than 50, and none raises it.
C13_DamageWithin50 ==
  [][\A i \in 1..Len(calls) : VerdictStep(i) =>
       /\ player'.hp <= player.hp /\ player'.hp >= player.hp - 50
       /\ opponent'.hp <= opponent.hp
       /\ opponent'.hp >= opponent.hp - 50]_vars

C15_FreshHandEachTurn ==
  [][\A i \in 1..Len(calls) :
       /\ calls[i].pc = "drawHand" =>
            /\ hasSubmitted \/ isLoading
            /\ Len(battleHistory) = calls[i].history_length + 1
       /\ VerdictStep(i) =>
            /\ player'.hand = player.hand
            /\ currentTurn' = currentTurn
       /\ ResolvedStep(i) =>
            /\ player'.hand = drawnHand'
            /\ Cardinality(player'.hand) = 3
            /\ battleHistory' = battleHistory
            /\ currentTurn' = currentTurn + 1
            /\ ~hasSubmitted' /\ ~isLoading']_vars

\* C15 witness: the first turn is resolved and the player holds the hand
\* of the latest draw, with nothing selected.
C15_Witness ==
  /\ calls = <<>>
  /\ currentTurn = 1
  /\ Len(battleHistory) = 1
  /\ player.hand = drawnHand
  /\ player.hand = {"sword", "steel", "ice"}
  /\ mySelectedCards = <<>>
  /\ ~hasSubmitted /\ ~isLoading

\* C16: within a match the turn counter never decreases, it changes only
\* in the step that resolves a turn, and then by exactly 1.
C16_TurnAdvancesByOne ==
  [][~ResetStep =>
       /\ currentTurn' >= currentTurn
       /\ currentTurn' # currentTurn =>
            /\ currentTurn' = currentTurn + 1
            /\ \E i \in 1..Len(calls) : ResolvedStep(i)
       /\ \A i \in 1..Len(calls) : ResolvedStep(i) =>
            currentTurn' = currentTurn + 1]_vars

\* C16 witness: two turns are resolved, the counter is at 2.
C16_Witness ==
  /\ calls = <<>>
  /\ currentTurn = 2
  /\ Len(battleHistory) = 2

\* C17: within a match the history changes only by one record appended at
\* its end, once per verdict; the records already there stay as they are.
C17_HistoryAppendOnly ==
  [][~ResetStep =>
       /\ \/ battleHistory' = battleHistory
          \/ /\ Len(battleHistory') = Len(battleHistory) + 1
             /\ SubSeq(battleHistory', 1, Len(battleHistory)) = battleHistory
       /\ \A i \in 1..Len(calls) : VerdictStep(i) =>
            Len(battleHistory') = Len(battleHistory) + 1
       /\ battleHistory' # battleHistory =>
            \E i \in 1..Len(calls) : VerdictStep(i)]_vars

\* C17 witness: a second, different record stands after the first.
C17_Witness ==
  /\ Len(battleHistory) = 2
  /\ battleHistory[1].winner_id = "player_1"
  /\ battleHistory[2].winner_id = "player_2"
  /\ battleHistory[1].turn = 1 /\ battleHistory[2].turn = 2

\* C18: the status never goes from finished back to active or waiting, nor
\* from active back to waiting.
C18_StatusMovesForward ==
  [][/\ gameStatus = "finished" => gameStatus' \notin {"active", "waiting"}
     /\ gameStatus = "active" => gameStatus' # "waiting"]_vars

\* A player's hp is 0: the match is over.
MatchOver == player.hp = 0 \/ opponent.hp = 0

\* C19: the ratings change in the step that ends the match, and in no
\* other step of the match.
C19_RatingsUpdatedAtFinish ==
  [][~ResetStep =>
       (<<player'.elo_rating, opponent'.elo_rating>>
           # <<player.elo_rating, opponent.elo_rating>>
        <=> (~MatchOver /\ MatchOver'))]_vars

\* C20: when a match ends with a winner, the winner's rating change is the
\* opposite of the loser's (and not a loss); when it ends in a tie, both
\* changes follow from score 0.5: none between equals, otherwise the
\* higher rated player gives and the lower rated takes, at most K/2.
C20_EloZeroSum ==
  [][(gameStatus = "active" /\ gameStatus' = "finished") =>
       LET dp == player'.elo_rating - player.elo_rating
           do == opponent'.elo_rating - opponent.elo_rating
           tie == ~(opponent.hp = 0 /\ player.hp > 0)
                  /\ ~(player.hp = 0 /\ opponent.hp > 0)
       IN /\ (opponent.hp = 0 /\ player.hp > 0) =>
               dp = 0 - do /\ dp >= 0 /\ dp <= 32
          /\ (player.hp = 0 /\ opponent.hp > 0) =>
               do = 0 - dp /\ do >= 0 /\ do <= 32
          /\ tie =>
               /\ player.elo_rating = opponent.elo_rating =>
                    dp = 0 /\ do = 0
               /\ player.elo_rating > opponent.elo_rating =>
                    dp <= 0 /\ do >= 0
               /\ player.elo_rating < opponent.elo_rating =>
                    dp >= 0 /\ do <= 0
               /\ dp >= -16 /\ dp <= 16 /\ do >= -16 /\ do <= 16]_vars

\* C20 witness: two players rated 1200, the player won: 1216 and 1184.
C20_Witness ==
  /\ gameStatus = "finished"
  /\ opponent.hp = 0
  /\ player.elo_rating = 1216
  /\ opponent.elo_rating = 1184

\* C21: whatever store actions are called, with whatever arguments, the hp
\* of the player and of the opponent stay within 0..100.
C21_StoreHpInRange ==
  \A hp \in {player.hp, opponent.hp} : hp >= 0 /\ hp <= MaxHP

\* The effect of the mount ended in its catch block in this step.
InitFailStep ==
  /\ initPc \in {"fetchCards", "drawHand"}
  /\ initPc' = "done"
  /\ player'.hand = {}

\* C22: when fetchCards or drawHand fails during the start of the game, the
\* error becomes the failure's message and isLoading becomes false; once
\* the start has ended and nothing is pending, the game is not loading.
C22_InitFailureReported ==
  [][/\ InitFailStep =>
          /\ ~isLoading'
          /\ initPc = "fetchCards" => error' = <<MsgFetchCards>>
          /\ initPc = "drawHand" => error' = <<MsgDrawHand>>
     /\ (initPc' = "done" /\ calls' = <<>>) => ~isLoading']_vars

\* C22 witness: the cards were fetched, the first hand could not be drawn.
C22_Witness ==
  /\ initPc = "done"
  /\ allCards = CardIds
  /\ player.hand = {}
  /\ error = <<MsgDrawHand>>
  /\ ~isLoading

\* C23: while the controls are disabled no step other than the end of the
\* turn (or a reset) changes the selected cards or the prompt, so what a
\* pending invocation sent to the judge is what the store still holds.
C23_DisabledCardInert ==
  [][/\ (Disabled /\ ~ResetStep /\ ~(\E i \in 1..Len(calls) : ResolvedStep(i)))
          => (mySelectedCards' = mySelectedCards /\ myPrompt' = myPrompt)
     /\ \A i \in 1..Len(calls) :
          /\ calls[i].player1_cards = mySelectedCards
          /\ calls[i].player1_prompt = myPrompt]_vars

\* C23 witness: a submission with two cards has its verdict and waits for
\* the new hand; the store still holds the two cards and the prompt.
C23_Witness ==
  /\ Len(calls) = 1 /\ calls[1].pc = "drawHand"
  /\ Disabled
  /\ Len(mySelectedCards) = 2
  /\ mySelectedCards = calls[1].player1_cards
  /\ myPrompt = calls[1].player1_prompt

\* C24: whenever no submission is pending, the turn counter equals the
\* length of the history, and the k-th record of the history has turn k.
C24_TurnMatchesHistory ==
  calls = <<>> =>
    /\ currentTurn = Len(battleHistory)
    /\ \A k \in 1..Len(battleHistory) : battleHistory[k].turn = k

\* A reconnect timer was set in this step (by ws.onclose).
ScheduleStep == \E t \in timers' : t \notin timers

\* A reconnect timer ran in this step: it counted an attempt and connected.
TimerStep == reconnectAttempts' = reconnectAttempts + 1

\* C25: once disconnect() has run and connect() has not been called since
\* (wsRef.current is null), no reconnect timer is set and none runs.
C25_NoReconnectAfterDisconnect ==
  [][wsRef = 0 => (~ScheduleStep /\ ~TimerStep)]_vars

\* C26: at most one socket of the hook is CONNECTING or OPEN.
C26_OneLiveSocket ==
  Cardinality({id \in SocketIds : Live(sockets[id])}) <= 1

\* C27: whenever isConnected is true, the socket wsRef points to is open,
\* so that sendMessage sends and returns true.
C27_ConnectedMeansSendable == isConnected => sendMessage

\* C28: a reconnect timer is set only while reconnectAttempts is below 5,
\* reconnectAttempts never exceeds 5, and it is 0 after a socket opened.
C28_ReconnectBounded ==
  [][/\ ScheduleStep => reconnectAttempts < MaxReconnectAttempts
     /\ reconnectAttempts' <= MaxReconnectAttempts
     /\ (\E id \in SocketIds :
           sockets[id] = "CONNECTING" /\ sockets'[id] = "OPEN")
          => reconnectAttempts' = 0]_vars

\* C29: when a turn is resolved the store's error is null, whatever failed
\* before.
C29_ErrorClearedBySuccess ==
  [][\A i \in 1..Len(calls) : ResolvedStep(i) => error' = NoError]_vars

\* C30: a turn changes the hp of at most one player: the step that applies
\* its verdict leaves the player's or the opponent's hp as it was, no other
\* step of a match changes an hp, and so no step takes both to 0.
C30_OnePlayerDamagedPerTurn ==
  [][~ResetStep =>
       /\ player'.hp = player.hp \/ opponent'.hp = opponent.hp
       /\ <<player'.hp, opponent'.hp>> # <<player.hp, opponent.hp>> =>
            \E i \in 1..Len(calls) : VerdictStep(i)
       /\ \A i \in 1..Len(calls) : ResolvedStep(i) =>
            \/ player'.hp = calls[i].player_hp
            \/ opponent'.hp = calls[i].opponent_hp
       /\ (player.hp > 0 /\ opponent.hp > 0) =>
            (player'.hp > 0 \/ opponent'.hp > 0)]_vars

\* C30 witness: both players have lost hp, each in a turn of its own, and
\* the second of the two turns is resolved.
C30_Witness ==
  /\ calls = <<>>
  /\ currentTurn = 2
  /\ opponent.hp = 0
  /\ player.hp = 60

====
